---- MODULE Spec2Model ----
(***************************************************************************)
(* The JSON-to-C++ generator of src/src/experiments/compiler.py as a state *)
(* machine.  compiler() is run once on an input document; the recursion of *)
(* generate_block / generate_instruction is an explicit call stack, one    *)
(* action per call, continuation or return.                                *)
(*                                                                         *)
(* Text is a sequence of lines, a line is its indentation and its tokens.  *)
(* Blank lines are not represented (indent_code drops them).  JSON numbers *)
(* are carried as their decimal text.                                      *)
(***************************************************************************)
EXTENDS Integers, Sequences, FiniteSets, TLC

VARIABLES json_input, pc, data, stack, ret, calls, cpp_code, file, stdout

vars == <<json_input, pc, data, stack, ret, calls, cpp_code, file, stdout>>

\* Largest number of instructions (nested ones included) of an input program.
MaxNodes == 3

-----------------------------------------------------------------------------
(* Python values *)

None == "<None>"

\* None where a dict is expected.
NoData == [is_none |-> TRUE]

Truthy(x) == x # None /\ x # ""

Get(d, key, default) == IF key \in DOMAIN d THEN d[key] ELSE default

-----------------------------------------------------------------------------
(* Input programs *)

\* A JSON scalar: a number, or a string (an identifier or numeric text).
JsonNumber(n) == [json |-> "number", v |-> n]

JsonString(s) == [json |-> "string", v |-> s]

TheCondition == [lhs |-> JsonString("a"), op |-> ">", rhs |-> JsonNumber(2)]

TheInit == [name |-> "i", value |-> JsonNumber(0)]

TheArgs == <<JsonString("a"), JsonString("2")>>

AssignInstrs ==
    {[type |-> "assign", name |-> nm, value |-> JsonNumber(5)] : nm \in {"a", ""}}

CallInstrs ==
    {[type |-> "call", function |-> "f", args |-> TheArgs],
     [type |-> "call", name |-> "b", function |-> "f", args |-> TheArgs]}

UnknownInstrs == {[type |-> "while"]}

IfInstr(nm, t, e) ==
    LET base == [type |-> "if", condition |-> TheCondition, then |-> t]
        named == IF nm = None THEN base ELSE [type |-> "if", name |-> nm, condition |-> TheCondition, then |-> t]
    IN  IF e = <<>> THEN named
        ELSE IF nm = None THEN [type |-> "if", condition |-> TheCondition, then |-> t, else |-> e]
        ELSE [type |-> "if", name |-> nm, condition |-> TheCondition, then |-> t, else |-> e]

ForInstr(b) ==
    [type |-> "for", init |-> TheInit, condition |-> TheCondition, update |-> "i++", body |-> b]

\* The single instructions whose tree has exactly n >= 1 instructions, given
\* blocks[k + 1], the instruction lists with exactly k < n instructions.
Instrs(n, blocks) ==
    (IF n = 1 THEN AssignInstrs \cup CallInstrs \cup UnknownInstrs ELSE {})
    \cup {ForInstr(b) : b \in blocks[n]}
    \cup UNION {{IfInstr(nm, t, e) : nm \in {None, "a", "n"}, t \in blocks[k + 1], e \in blocks[n - k]}
                : k \in 0..(n - 1)}

\* <<B0, ..., Bn>>: Bk the instruction lists with exactly k instructions,
\* nested ones included.
RECURSIVE Blocks(_)
Blocks(n) ==
    IF n = 0 THEN <<{<<>>}>>
    ELSE LET blocks == Blocks(n - 1)
             instrs == [k \in 1..n |-> Instrs(k, blocks)]
         IN  Append(blocks,
                    UNION {{<<h>> \o t : h \in instrs[k], t \in blocks[n - k + 1]} : k \in 1..n})

\* The instruction lists with at most MaxNodes - 1 instructions, by their
\* number of instructions: what can follow, or lie inside, the first
\* instruction of a program.
BlockTable == Blocks(MaxNodes - 1)

\* The input text, by what json.loads makes of it: a syntax error, the empty
\* object, or an object with a "program" list.
MalformedJson == [well_formed |-> FALSE]

EmptyObject == [well_formed |-> TRUE, value |-> <<>>]

ProgramInput(p) == [well_formed |-> TRUE, value |-> [program |-> p]]

\* json_input is any of the inputs above whose program has at most MaxNodes
\* instructions: no instruction, or a first instruction of k instructions
\* followed by a list of n - k.
IsJsonInput ==
    \/ json_input = MalformedJson
    \/ json_input = EmptyObject
    \/ json_input = ProgramInput(<<>>)
    \/ \E n \in 1..MaxNodes :
          \E k \in 1..n :
             \E t \in BlockTable[n - k + 1] :
                \/ /\ k = 1
                   /\ \E h \in AssignInstrs \cup CallInstrs \cup UnknownInstrs :
                         json_input = ProgramInput(<<h>> \o t)
                \/ \E b \in BlockTable[k] :
                      json_input = ProgramInput(<<ForInstr(b)>> \o t)
                \/ \E nm \in {None, "a", "n"} :
                      \E j \in 0..(k - 1) :
                         \E th \in BlockTable[j + 1] :
                            \E el \in BlockTable[k - j] :
                               json_input = ProgramInput(<<IfInstr(nm, th, el)>> \o t)

-----------------------------------------------------------------------------
(* Text *)

Line(toks) == [ind |-> 0, toks |-> toks]

\* The strings float() accepts, among the strings of the inputs.
NumericText == {"0", "2", "5"}

DecimalText == <<"0", "1", "2", "3", "4", "5", "6", "7", "8", "9">>

\* str(): a number's decimal text, a string itself.
str(val) == IF val.json = "number" THEN DecimalText[val.v + 1] ELSE val.v

is_numeric(value) == value.json = "number" \/ value.v \in NumericText

generate_value(val) == IF is_numeric(val) THEN str(val) ELSE val.v

generate_condition(cond) ==
    <<generate_value(cond.lhs), cond.op, generate_value(cond.rhs)>>

indent_code(code, level) ==
    [i \in 1..Len(code) |-> [code[i] EXCEPT !.ind = @ + level]]

RECURSIVE JoinArgs(_)
JoinArgs(arg_exprs) ==
    IF Len(arg_exprs) = 0 THEN <<>>
    ELSE IF Len(arg_exprs) = 1 THEN arg_exprs
    ELSE <<arg_exprs[1], ",">> \o JoinArgs(Tail(arg_exprs))

-----------------------------------------------------------------------------
(* generate_instruction: the leaf kinds *)

\* forced_var = final_var if (is_last and final_var) else None
ForcedVar(final_var, is_last) ==
    IF is_last /\ Truthy(final_var) THEN final_var ELSE None

\* AssignCode without the override: the instruction always declares its own name.
AssignCode_OwnName(instr, indent_level, forced_var) ==
    [code |-> indent_code(<<Line(<<"uint32_t", instr.name, "=", generate_value(instr.value), ";">>)>>,
                          indent_level),
     assigned |-> instr.name]

\* The "assign" branch: (code, produced variable).
AssignCode(instr, indent_level, forced_var) ==
    LET var_name == instr.name
        value == generate_value(instr.value)
    IN  IF Truthy(forced_var)
        THEN [code |-> indent_code(<<Line(<<forced_var, "=", value, ";">>)>>, indent_level),
              assigned |-> forced_var]
        ELSE [code |-> indent_code(<<Line(<<"uint32_t", var_name, "=", value, ";">>)>>, indent_level),
              assigned |-> var_name]

\* The "call" branch.
CallCode(instr, indent_level, forced_var) ==
    LET var_name == Get(instr, "name", None)
        func_name == instr.function
        args == Get(instr, "args", <<>>)
        arg_exprs == [k \in 1..Len(args) |-> generate_value(args[k])]
        call == <<func_name, "(">> \o JoinArgs(arg_exprs) \o <<")", ";">>
    IN  IF Truthy(forced_var)
        THEN [code |-> indent_code(<<Line(<<forced_var, "=">> \o call)>>, indent_level),
              assigned |-> forced_var]
        ELSE IF Truthy(var_name)
        THEN [code |-> indent_code(<<Line(<<"uint32_t", var_name, "=">> \o call)>>, indent_level),
              assigned |-> var_name]
        ELSE [code |-> indent_code(<<Line(call)>>, indent_level), assigned |-> None]

\* UnknownCode reporting the unknown type as a produced variable.
UnknownCode_ReportsType(instr, indent_level) ==
    [code |-> indent_code(<<Line(<<"// Unknown instruction type:", instr.type>>)>>, indent_level),
     assigned |-> instr.type]

\* The final else: an unknown instruction type.
UnknownCode(instr, indent_level) ==
    [code |-> indent_code(<<Line(<<"// Unknown instruction type:", instr.type>>)>>, indent_level),
     assigned |-> None]

-----------------------------------------------------------------------------
(* generate_instruction: "if" *)

\* local_if_var = if_var if if_var else forced_var
LocalIfVar(if_var, forced_var) == IF Truthy(if_var) THEN if_var ELSE forced_var

\* IfOpen without the declaration of local_if_var.
IfOpen_NoDeclaration(instr, local_if_var) ==
    <<Line(<<"if", "(">> \o generate_condition(instr.condition) \o <<")", "{">>)>>

\* code_list up to the opening of the then block.
IfOpen(instr, local_if_var) ==
    (IF Truthy(local_if_var) THEN <<Line(<<"uint32_t", local_if_var, ";">>)>> ELSE <<>>)
    \o <<Line(<<"if", "(">> \o generate_condition(instr.condition) \o <<")", "{">>)>>

\* final_name = if_var if if_var else forced_var
FinalName(if_var, forced_var) == IF Truthy(if_var) THEN if_var ELSE forced_var

\* post_assign_code: the bridging statement, or nothing.
PostAssignCode(forced_var, if_var) ==
    IF Truthy(forced_var) /\ (Truthy(if_var) /\ forced_var # if_var)
    THEN <<Line(<<forced_var, "=", if_var, ";">>)>>
    ELSE <<>>

\* From joined_code to the return of the "if" branch.
IfResult(instr, indent_level, forced_var, code_list) ==
    LET if_var == Get(instr, "name", None)
    IN  [code |-> indent_code(code_list, indent_level)
                  \o indent_code(PostAssignCode(forced_var, if_var), indent_level),
         assigned |-> FinalName(if_var, forced_var)]

-----------------------------------------------------------------------------
(* generate_instruction: "for" *)

ForOpen(instr) ==
    LET init_obj == instr.init
        init_str == <<"uint32_t", init_obj.name, "=", generate_value(init_obj.value), ";">>
        cond_str == generate_condition(instr.condition)
    IN  <<Line(<<"for", "(">> \o init_str \o cond_str \o <<";", instr.update, ")", "{">>)>>

ForResult(indent_level, forced_var, code_list, body_assigned) ==
    [code |-> indent_code(code_list, indent_level),
     assigned |-> IF Truthy(forced_var) THEN forced_var ELSE body_assigned]

-----------------------------------------------------------------------------
(* generate_block *)

\* The fallback statement, appended when the block must produce final_var and
\* the last produced variable is another one.
Fallback(final_var, last_assigned) ==
    IF Truthy(final_var) /\ last_assigned # final_var
    THEN <<Line(<<final_var, "=", "0", ";", "// fallback if never assigned">>)>>
    ELSE <<>>

\* The loop body after generate_instruction returned: last_assigned.
LastAssigned(last_assigned, sub_assigned) ==
    IF Truthy(sub_assigned) THEN sub_assigned ELSE last_assigned

-----------------------------------------------------------------------------
(* generate_cpp_prefix, find_final_variable, generate_cpp_main, parse_json *)

Includes ==
    <<"<iostream>", "<functional>", "<map>", "<string>", "<vector>",
      "\"../comm/comm.hpp\"", "\"../tools/random_number_generator.hpp\"",
      "\"../tools/secret_sharing.hpp\"", "\"../tools/tools.hpp\"",
      "\"../utils/logger.hpp\"", "\"../utils/utils.hpp\"",
      "\"add.hpp\"", "\"mult.hpp\"", "\"fssgate.hpp\"">>

generate_cpp_prefix == [k \in 1..Len(Includes) |-> Line(<<"#include", Includes[k]>>)]

\* find_final_variable also searching the then block of an if without a name.
RECURSIVE find_final_variable_Dives(_)
find_final_variable_Dives(program) ==
    IF Len(program) = 0 THEN None
    ELSE LET instr == program[Len(program)]
             t == instr.type
             rest == SubSeq(program, 1, Len(program) - 1)
         IN  IF t \in {"assign", "call", "if"} /\ "name" \in DOMAIN instr THEN instr.name
             ELSE IF t = "if" /\ find_final_variable_Dives(instr.then) # None
             THEN find_final_variable_Dives(instr.then)
             ELSE find_final_variable_Dives(rest)

\* The scanned instructions, from the last one backwards.
RECURSIVE find_final_variable(_)
find_final_variable(program) ==
    IF Len(program) = 0 THEN None
    ELSE LET instr == program[Len(program)]
             t == instr.type
         IN  IF t \in {"assign", "call"} /\ "name" \in DOMAIN instr THEN instr.name
             ELSE IF t = "if" /\ "name" \in DOMAIN instr THEN instr.name
             ELSE find_final_variable(SubSeq(program, 1, Len(program) - 1))

\* FinalVar with the two steps in the other order: the backward scan first.
FinalVar_ScanFirst(last_assigned, program) ==
    IF Truthy(find_final_variable(program)) THEN find_final_variable(program)
    ELSE last_assigned

\* final_var = last_assigned if last_assigned else find_final_variable(program)
FinalVar(last_assigned, program) ==
    IF Truthy(last_assigned) THEN last_assigned ELSE find_final_variable(program)

MainOpen == <<Line(<<"int", "main", "(", ")", "{">>)>>

\* generate_cpp_main after the entry block was generated.
CppMain(program, body_code, last_assigned) ==
    LET final_var == FinalVar(last_assigned, program)
    IN  MainOpen \o body_code
        \o (IF Truthy(final_var)
            THEN <<[ind |-> 4, toks |-> <<"return", final_var, ";">>]>>
            ELSE <<[ind |-> 4, toks |-> <<"return", "0", ";">>]>>)
        \o <<Line(<<"}">>)>>

\* parse_json answering a syntax error with an empty program instead of None.
parse_json_EmptyProgram(json_str) ==
    IF json_str.well_formed THEN json_str.value ELSE [program |-> <<>>]

parse_json(json_str) == IF json_str.well_formed THEN json_str.value ELSE NoData

\* "not data": None, or an empty dict.
NotData(d) == "is_none" \in DOMAIN d \/ DOMAIN d = {}

-----------------------------------------------------------------------------
(* The call stack.  A frame is one active call; the top is the last element. *)
(* path is the position of the frame's instruction (or block) in the input   *)
(* tree: the indices from the root, 1 for "then", 2 for "else", 3 for "body".*)

NoRet == [fn |-> "none"]

Top == stack[Len(stack)]

Pop == SubSeq(stack, 1, Len(stack) - 1)

SetTop(frame) == [stack EXCEPT ![Len(stack)] = frame]

MainFrame(program) == [fn |-> "generate_cpp_main", program |-> program]

BlockFrame(instructions, indent_level, final_var, path) ==
    [fn |-> "generate_block", instructions |-> instructions, indent_level |-> indent_level,
     final_var |-> final_var, i |-> 1, code_lines |-> <<>>, last_assigned |-> None,
     path |-> path]

InstrFrame(instr, indent_level, forced_var, path) ==
    [fn |-> "generate_instruction", instr |-> instr, indent_level |-> indent_level,
     forced_var |-> forced_var, at |-> "enter", code_list |-> <<>>, local_if_var |-> None,
     path |-> path]

InstrRet(frame, result) ==
    [fn |-> "generate_instruction", instr |-> frame.instr, forced_var |-> frame.forced_var,
     code |-> result.code, assigned |-> result.assigned, path |-> frame.path]

BlockRet(frame, code, assigned) ==
    [fn |-> "generate_block", instructions |-> frame.instructions,
     final_var |-> frame.final_var, code |-> code, assigned |-> assigned,
     path |-> frame.path]

InBlock == pc = "generate" /\ Top.fn = "generate_block"

InInstr(types) == pc = "generate" /\ Top.fn = "generate_instruction" /\ Top.instr.type \in types

KnownTypes == {"assign", "call", "if", "for"}

-----------------------------------------------------------------------------
(* compiler() *)

\* generated_code.cpp before compiler() has opened it: absent, or whatever an
\* earlier run left.
Untouched == [written |-> FALSE, text |-> <<>>]

Init ==
    /\ IsJsonInput
    /\ pc = "parse"
    /\ data = NoData
    /\ stack = <<>>
    /\ ret = NoRet
    /\ calls = <<>>
    /\ cpp_code = <<>>
    /\ file = Untouched
    /\ stdout = <<>>

\* data = parse_json(json_input)
ParseJson ==
    /\ pc = "parse"
    /\ data' = parse_json(json_input)
    /\ stdout' = IF json_input.well_formed THEN stdout
                 ELSE Append(stdout, "Invalid JSON format:")
    /\ pc' = "check"
    /\ UNCHANGED <<json_input, stack, ret, calls, cpp_code, file>>

\* if not data: return
ReturnNoData ==
    /\ pc = "check"
    /\ NotData(data)
    /\ pc' = "done"
    /\ UNCHANGED <<json_input, data, stack, ret, calls, cpp_code, file, stdout>>

\* generate_code up to generate_cpp_main's call of generate_block(program, 4).
GenerateCode ==
    /\ pc = "check"
    /\ ~NotData(data)
    /\ LET program == Get(data, "program", <<>>)
       IN  stack' = <<MainFrame(program), BlockFrame(program, 4, None, <<>>)>>
    /\ pc' = "generate"
    /\ UNCHANGED <<json_input, data, ret, calls, cpp_code, file, stdout>>

\* with open("generated_code.cpp", "w") as f: f.write(cpp_code)
WriteFile ==
    /\ pc = "write"
    /\ file' = [written |-> TRUE, text |-> cpp_code]
    /\ pc' = "done"
    /\ UNCHANGED <<json_input, data, stack, ret, calls, cpp_code, stdout>>

-----------------------------------------------------------------------------
(* generate_block *)

\* One turn of the loop, up to the call of generate_instruction.
BlockCallInstruction ==
    /\ InBlock
    /\ ret = NoRet
    /\ Top.i <= Len(Top.instructions)
    /\ LET is_last == (Top.i = Len(Top.instructions))
           forced_var == ForcedVar(Top.final_var, is_last)
           path == Top.path \o <<Top.i>>
       IN  /\ stack' = Append(stack, InstrFrame(Top.instructions[Top.i], Top.indent_level,
                                                forced_var, path))
           /\ calls' = Append(calls, path)
    /\ UNCHANGED <<json_input, pc, data, ret, cpp_code, file, stdout>>

\* BlockAfterInstruction stepping over the next instruction.
BlockAfterInstruction_SkipNext ==
    /\ InBlock
    /\ ret.fn = "generate_instruction"
    /\ stack' = SetTop([Top EXCEPT !.code_lines = @ \o ret.code,
                                   !.last_assigned = LastAssigned(@, ret.assigned),
                                   !.i = @ + 2])
    /\ ret' = NoRet
    /\ UNCHANGED <<json_input, pc, data, calls, cpp_code, file, stdout>>

\* The rest of the turn, after generate_instruction returned.
BlockAfterInstruction ==
    /\ InBlock
    /\ ret.fn = "generate_instruction"
    /\ stack' = SetTop([Top EXCEPT !.code_lines = @ \o ret.code,
                                   !.last_assigned = LastAssigned(@, ret.assigned),
                                   !.i = @ + 1])
    /\ ret' = NoRet
    /\ UNCHANGED <<json_input, pc, data, calls, cpp_code, file, stdout>>

\* After the loop: the fallback, and the return.
BlockReturn ==
    /\ InBlock
    /\ ret = NoRet
    /\ Top.i > Len(Top.instructions)
    /\ ret' = BlockRet(Top, Top.code_lines \o Fallback(Top.final_var, Top.last_assigned),
                       Top.last_assigned)
    /\ stack' = Pop
    /\ UNCHANGED <<json_input, pc, data, calls, cpp_code, file, stdout>>

-----------------------------------------------------------------------------
(* generate_instruction *)

InstrAssign ==
    /\ InInstr({"assign"})
    /\ ret' = InstrRet(Top, AssignCode(Top.instr, Top.indent_level, Top.forced_var))
    /\ stack' = Pop
    /\ UNCHANGED <<json_input, pc, data, calls, cpp_code, file, stdout>>

InstrCall ==
    /\ InInstr({"call"})
    /\ ret' = InstrRet(Top, CallCode(Top.instr, Top.indent_level, Top.forced_var))
    /\ stack' = Pop
    /\ UNCHANGED <<json_input, pc, data, calls, cpp_code, file, stdout>>

InstrUnknown ==
    /\ pc = "generate"
    /\ Top.fn = "generate_instruction"
    /\ Top.instr.type \notin KnownTypes
    /\ ret' = InstrRet(Top, UnknownCode(Top.instr, Top.indent_level))
    /\ stack' = Pop
    /\ UNCHANGED <<json_input, pc, data, calls, cpp_code, file, stdout>>

\* "if", up to the call of generate_block on the then block.
IfCallThen ==
    /\ InInstr({"if"})
    /\ Top.at = "enter"
    /\ LET local_if_var == LocalIfVar(Get(Top.instr, "name", None), Top.forced_var)
           frame == [Top EXCEPT !.at = "then", !.local_if_var = local_if_var,
                                !.code_list = IfOpen(Top.instr, local_if_var)]
       IN  stack' = Append(SetTop(frame),
                           BlockFrame(Get(Top.instr, "then", <<>>), Top.indent_level,
                                      local_if_var, Top.path \o <<1>>))
    /\ UNCHANGED <<json_input, pc, data, ret, calls, cpp_code, file, stdout>>

\* "if", after the then block: the else block is generated when there is one,
\* and the instruction returns when there is none.
IfAfterThen ==
    /\ InInstr({"if"})
    /\ Top.at = "then"
    /\ ret.fn = "generate_block"
    /\ LET else_block == Get(Top.instr, "else", <<>>)
           code_list == Top.code_list \o ret.code \o <<Line(<<"}">>)>>
       IN  \/ /\ Len(else_block) > 0
              /\ stack' = Append(SetTop([Top EXCEPT !.at = "else",
                                                    !.code_list = code_list \o <<Line(<<"else", "{">>)>>]),
                                 BlockFrame(else_block, Top.indent_level, Top.local_if_var,
                                            Top.path \o <<2>>))
              /\ ret' = NoRet
           \/ /\ Len(else_block) = 0
              /\ ret' = InstrRet(Top, IfResult(Top.instr, Top.indent_level, Top.forced_var, code_list))
              /\ stack' = Pop
    /\ UNCHANGED <<json_input, pc, data, calls, cpp_code, file, stdout>>

\* "if", after the else block, to the return.
IfAfterElse ==
    /\ InInstr({"if"})
    /\ Top.at = "else"
    /\ ret.fn = "generate_block"
    /\ LET code_list == Top.code_list \o ret.code \o <<Line(<<"}">>)>>
       IN  ret' = InstrRet(Top, IfResult(Top.instr, Top.indent_level, Top.forced_var, code_list))
    /\ stack' = Pop
    /\ UNCHANGED <<json_input, pc, data, calls, cpp_code, file, stdout>>

\* "for", up to the call of generate_block on the body.
ForCallBody ==
    /\ InInstr({"for"})
    /\ Top.at = "enter"
    /\ stack' = Append(SetTop([Top EXCEPT !.at = "body", !.code_list = ForOpen(Top.instr)]),
                       BlockFrame(Get(Top.instr, "body", <<>>), Top.indent_level,
                                  Top.forced_var, Top.path \o <<3>>))
    /\ UNCHANGED <<json_input, pc, data, ret, calls, cpp_code, file, stdout>>

\* "for", after the body, to the return.
ForAfterBody ==
    /\ InInstr({"for"})
    /\ Top.at = "body"
    /\ ret.fn = "generate_block"
    /\ LET code_list == Top.code_list \o ret.code \o <<Line(<<"}">>)>>
       IN  ret' = InstrRet(Top, ForResult(Top.indent_level, Top.forced_var, code_list, ret.assigned))
    /\ stack' = Pop
    /\ UNCHANGED <<json_input, pc, data, calls, cpp_code, file, stdout>>

-----------------------------------------------------------------------------
(* generate_cpp_main, generate_code *)

\* The entry block returned: the return statement, and prefix + main_code.
MainAfterBlock ==
    /\ pc = "generate"
    /\ Top.fn = "generate_cpp_main"
    /\ ret.fn = "generate_block"
    /\ cpp_code' = generate_cpp_prefix \o CppMain(Top.program, ret.code, ret.assigned)
    /\ stack' = Pop
    /\ pc' = "write"
    /\ UNCHANGED <<json_input, data, ret, calls, file, stdout>>

Next ==
    \/ ParseJson
    \/ ReturnNoData
    \/ GenerateCode
    \/ WriteFile
    \/ BlockCallInstruction
    \/ BlockAfterInstruction
    \/ BlockReturn
    \/ InstrAssign
    \/ InstrCall
    \/ InstrUnknown
    \/ IfCallThen
    \/ IfAfterThen
    \/ IfAfterElse
    \/ ForCallBody
    \/ ForAfterBody
    \/ MainAfterBlock

Spec == Init /\ [][Next]_vars

\* compiler() is one synchronous call: it keeps running until it returns.
FairSpec == Spec /\ WF_vars(Next)

-----------------------------------------------------------------------------
(* Reading the emitted text *)

IsUntypedAssign(line, V) ==
    Len(line.toks) >= 2 /\ line.toks[1] = V /\ line.toks[2] = "="

IsDeclaration(line, V) == line.toks = <<"uint32_t", V, ";">>

IsInitialisedDeclaration(line, V) ==
    Len(line.toks) >= 3 /\ line.toks[1] = "uint32_t" /\ line.toks[2] = V /\ line.toks[3] = "="

IsFallback(line, V) == line.toks = <<V, "=", "0", ";", "// fallback if never assigned">>

IsIfOpen(line) == line.toks[1] = "if" /\ line.toks[Len(line.toks)] = "{"

IsForOpen(line) == line.toks[1] = "for" /\ line.toks[Len(line.toks)] = "{"

IsElseOpen(line) == line.toks = <<"else", "{">>

IsClose(line) == line.toks = <<"}">>

IsOpen(line) == line.toks[Len(line.toks)] = "{"

\* Braces opened and not yet closed over the lines h..k.
Depth(code, h, k) ==
    Cardinality({j \in h..k : IsOpen(code[j])}) - Cardinality({j \in h..k : IsClose(code[j])})

\* The line closing the brace that line h opens.
CloseOf(code, h) ==
    CHOOSE k \in (h + 1)..Len(code) :
        Depth(code, h, k) = 0 /\ \A j \in (h + 1)..(k - 1) : Depth(code, h, j) > 0

\* The last line of the conditional whose "if" is line h, its else block included.
IfEnd(code, h) ==
    LET c == CloseOf(code, h)
    IN  IF c < Len(code) /\ IsElseOpen(code[c + 1]) THEN CloseOf(code, c + 1) ELSE c

Sums(A, B) == {a + b : a \in A, b \in B}

\* The numbers of statements "V = ...;" met on the execution paths through the
\* statements of lines lo..hi: a conditional takes one of its branches (or none,
\* without an else), a loop body runs once or not at all.
RECURSIVE AssignCounts(_, _, _, _)
AssignCounts(code, lo, hi, V) ==
    IF lo > hi THEN {0}
    ELSE IF IsIfOpen(code[lo])
    THEN LET c == CloseOf(code, lo)
             e == IfEnd(code, lo)
             then_counts == AssignCounts(code, lo + 1, c - 1, V)
             else_counts == IF e > c THEN AssignCounts(code, c + 2, e - 1, V) ELSE {0}
         IN  Sums(then_counts \cup else_counts, AssignCounts(code, e + 1, hi, V))
    ELSE IF IsForOpen(code[lo])
    THEN LET c == CloseOf(code, lo)
         IN  Sums({0} \cup AssignCounts(code, lo + 1, c - 1, V), AssignCounts(code, c + 1, hi, V))
    ELSE Sums({IF IsUntypedAssign(code[lo], V) THEN 1 ELSE 0}, AssignCounts(code, lo + 1, hi, V))

PathCounts(code, V) == AssignCounts(code, 1, Len(code), V)

BlockReturned == ret.fn = "generate_block"

InstrReturned(types) == ret.fn = "generate_instruction" /\ ret.instr.type \in types

-----------------------------------------------------------------------------
(* Claims *)

\* C1: whenever generate_block returns for a required output variable V, every
\* execution path through the emitted block meets exactly one statement
\* assigning V (from the last instruction or from the fallback "V = 0;").
C1_ExactlyOneAssignmentOnEveryPath ==
    (BlockReturned /\ Truthy(ret.final_var))
        => PathCounts(ret.code, ret.final_var) = {1}

\* C2: when generate_block returns for a required output variable V and the
\* statements generated for its instructions already assign V, no fallback
\* "V = 0;" follows them.
C2_NoFallbackAfterAssignment ==
    (BlockReturned /\ Truthy(ret.final_var))
        => LET V == ret.final_var
               n == Len(ret.code)
               has_fallback == n > 0 /\ IsFallback(ret.code[n], V)
           IN  has_fallback => \A k \in 1..(n - 1) : ~IsUntypedAssign(ret.code[k], V)

\* Every execution path through the statements of lines lo..hi meets a
\* statement "V = ...;".
AssignsIn(code, lo, hi, V) == 0 \notin AssignCounts(code, lo, hi, V)

NamedIfBridged ==
    /\ InstrReturned({"if"})
    /\ Truthy(Get(ret.instr, "name", None))
    /\ Truthy(ret.forced_var)
    /\ ret.forced_var # Get(ret.instr, "name", None)

\* C3: an if named N, generated as the last instruction of a block forcing
\* F # N, emits the declaration of N, then the conditional whose then branch
\* and (when the instruction has one) else branch each assign N on every
\* execution path through the branch, then the bridging statement "F = N;",
\* and reports N as produced.
C3_NamedIfBridges ==
    NamedIfBridged
        => LET N == ret.instr.name
               F == ret.forced_var
               code == ret.code
               n == Len(code)
               has_else == Len(Get(ret.instr, "else", <<>>)) > 0
           IN  /\ n >= 5
               /\ IsDeclaration(code[1], N)
               /\ IsIfOpen(code[2])
               /\ AssignsIn(code, 3, CloseOf(code, 2) - 1, N)
               /\ has_else <=> IfEnd(code, 2) > CloseOf(code, 2)
               /\ has_else => AssignsIn(code, CloseOf(code, 2) + 2, IfEnd(code, 2) - 1, N)
               /\ IfEnd(code, 2) = n - 1
               /\ code[n].toks = <<F, "=", N, ";">>
               /\ ret.assigned = N

\* The frame of the instruction enclosing the block on top of the stack.
Encloser == stack[Len(stack) - 1]

\* C4: a forced assign or call emits the single statement "F = ...;" with no
\* type, never targets its own name (when that differs from F) and reports F;
\* an unforced assign, or an unforced call with a name, emits
\* "uint32_t name = ...;" and reports name.  The last assign of a branch of a
\* named if assigns the if's name.
C4_ForcedVariableWins ==
    InstrReturned({"assign", "call"})
        => LET F == ret.forced_var
               name == Get(ret.instr, "name", None)
               line == ret.code[1]
           IN  /\ Len(ret.code) = 1
               /\ Truthy(F)
                    => /\ IsUntypedAssign(line, F)
                       /\ ret.assigned = F
                       /\ line.toks[1] # "uint32_t"
                       /\ (name # None /\ name # F)
                            => /\ ~IsUntypedAssign(line, name)
                               /\ ~IsInitialisedDeclaration(line, name)
                               /\ ~IsDeclaration(line, name)
               /\ (~Truthy(F) /\ (ret.instr.type = "assign" \/ Truthy(name)))
                    => /\ IsInitialisedDeclaration(line, name)
                       /\ ret.assigned = name
               /\ (/\ ret.instr.type = "assign"
                   /\ Top.fn = "generate_block"
                   /\ Top.i = Len(Top.instructions)
                   /\ Encloser.fn = "generate_instruction"
                   /\ Encloser.instr.type = "if"
                   /\ Truthy(Get(Encloser.instr, "name", None)))
                    => IsUntypedAssign(line, Encloser.instr.name)

C4_Witness ==
    /\ InstrReturned({"assign"})
    /\ ret.instr.name = "a"
    /\ ret.forced_var = "n"
    /\ ret.code[1].toks = <<"n", "=", "5", ";">>
    /\ Encloser.instr.type = "if"
    /\ Encloser.at = "else"

ForForced == InstrReturned({"for"}) /\ Truthy(ret.forced_var)

\* C5: a for generated with a forced variable V reports V, and every execution
\* path through one iteration of the emitted loop body assigns V.
C5_LoopBodyAssignsOnEveryPath ==
    ForForced
        => /\ ret.assigned = ret.forced_var
           /\ AssignsIn(ret.code, 2, Len(ret.code) - 1, ret.forced_var)

-----------------------------------------------------------------------------
(* The finished program *)

TheProgram == Get(data, "program", <<>>)

\* generate_code has returned the text of the program.
Generated == pc \in {"write", "done"} /\ cpp_code # <<>>

\* The instructions of a tree in program order, each with its position: an
\* instruction, then its then block, its else block, its body.
RECURSIVE PreorderFrom(_, _, _), PreorderOf(_, _)
PreorderFrom(instrs, k, prefix) ==
    IF k > Len(instrs) THEN <<>>
    ELSE PreorderOf(instrs[k], prefix \o <<k>>) \o PreorderFrom(instrs, k + 1, prefix)

PreorderOf(instr, path) ==
    <<[path |-> path, type |-> instr.type]>>
    \o (IF instr.type = "if"
        THEN PreorderFrom(Get(instr, "then", <<>>), 1, path \o <<1>>)
             \o PreorderFrom(Get(instr, "else", <<>>), 1, path \o <<2>>)
        ELSE IF instr.type = "for"
        THEN PreorderFrom(Get(instr, "body", <<>>), 1, path \o <<3>>)
        ELSE <<>>)

Preorder(program) == PreorderFrom(program, 1, <<>>)

PreorderPaths(program) ==
    LET pre == Preorder(program) IN [k \in 1..Len(pre) |-> pre[k].path]

\* The name the backward scan of the top-level instructions ends on.
ScannedName(program) ==
    LET named == {k \in 1..Len(program) :
                     program[k].type \in {"assign", "call", "if"} /\ "name" \in DOMAIN program[k]}
    IN  IF named = {} THEN None
        ELSE program[CHOOSE k \in named : \A j \in named : j <= k].name

ReturnLines == {k \in 1..Len(cpp_code) : cpp_code[k].toks[1] = "return"}

\* C6: the entry block is generated with no required output variable, and the
\* program ends with its only return statement, whose operand is the variable
\* the entry block reported, else the name the backward scan of the top-level
\* instructions finds, else the literal 0.
C6_ReturnOperand ==
    Generated
        => LET n == Len(cpp_code)
               operand == IF Truthy(ret.assigned) THEN ret.assigned
                          ELSE IF Truthy(ScannedName(TheProgram)) THEN ScannedName(TheProgram)
                          ELSE "0"
           IN  /\ BlockReturned
               /\ ret.instructions = TheProgram
               /\ ret.final_var = None
               /\ ReturnLines = {n - 1}
               /\ cpp_code[n - 1].toks = <<"return", operand, ";">>
               /\ IsClose(cpp_code[n])

C6_Witness ==
    /\ Generated
    /\ ret.assigned = "b"
    /\ ScannedName(TheProgram) = "a"
    /\ cpp_code[Len(cpp_code) - 1].toks = <<"return", "b", ";">>

\* C7: on input that is not valid JSON, compiler() reports the error, never
\* generates anything and returns with generated_code.cpp as it was.
C7_MalformedJsonWritesNothing ==
    /\ [](~json_input.well_formed
            => /\ pc \in {"parse", "check", "done"}
               /\ cpp_code = <<>>
               /\ pc # "parse" => stdout = <<"Invalid JSON format:">>)
    /\ [][~json_input.well_formed => file' = file]_vars

C7_Witness ==
    /\ ~json_input.well_formed
    /\ pc = "done"
    /\ file = Untouched
    /\ stdout = <<"Invalid JSON format:">>

UnknownKinds(program) ==
    {k \in 1..Len(Preorder(program)) : Preorder(program)[k].type \notin KnownTypes}

UnknownLines == {k \in 1..Len(cpp_code) : cpp_code[k].toks[1] = "// Unknown instruction type:"}

\* C8: an instruction of an unknown kind emits one comment line naming the
\* kind and reports nothing produced; generation goes on in its block, and the
\* finished program has one comment per unknown instruction and every
\* instruction of the tree generated in order.
C8_UnknownKindIsNotFatal ==
    /\ (ret.fn = "generate_instruction" /\ ret.instr.type \notin KnownTypes)
         => /\ Len(ret.code) = 1
            /\ ret.code[1].toks = <<"// Unknown instruction type:", ret.instr.type>>
            /\ ret.assigned = None
            /\ pc = "generate"
            /\ Top.fn = "generate_block"
            /\ ENABLED BlockAfterInstruction
    /\ (Generated /\ UnknownKinds(TheProgram) # {})
         => /\ Cardinality(UnknownLines) = Cardinality(UnknownKinds(TheProgram))
            /\ calls = PreorderPaths(TheProgram)

C8_Witness ==
    /\ Generated
    /\ Len(calls) = 3
    /\ Preorder(TheProgram)[2].type \notin KnownTypes
    /\ Len(calls[2]) = 3
    /\ Len(calls[3]) = 3
    /\ Cardinality(UnknownLines) = 1

IsPrefix(s, t) == Len(s) <= Len(t) /\ SubSeq(t, 1, Len(s)) = s

\* C9: generation terminates; generate_instruction is applied to the
\* instructions of the tree in program order, and once compiler() has
\* generated the program, exactly once to every one of them.
C9_TerminatesVisitingEachOnce ==
    /\ <>(pc = "done")
    /\ [](IsPrefix(calls, PreorderPaths(TheProgram)))
    /\ [](Generated => calls = PreorderPaths(TheProgram))

C9_Witness ==
    /\ pc = "done"
    /\ Generated
    /\ calls = <<<<1>>, <<1, 1, 1>>, <<1, 2, 1>>>>

ForcedOf(frame) ==
    IF frame.fn = "generate_block" THEN frame.final_var
    ELSE IF frame.fn = "generate_instruction" THEN frame.forced_var
    ELSE None

UntypedAssignLines(text) ==
    {p \in 1..Len(text) : Len(text[p].toks) >= 2 /\ text[p].toks[2] = "="}

\* Line p lies inside a conditional that follows a declaration of p's target.
DeclaredByEnclosingIf(text, p) ==
    \E q \in 1..(p - 2) :
        /\ IsDeclaration(text[q], text[p].toks[1])
        /\ IsIfOpen(text[q + 1])
        /\ p < IfEnd(text, q + 1)

\* C10: a required output variable is always the declared result variable of
\* an if instruction being generated, and in the finished program every
\* statement "V = ...;" lies inside a conditional preceded by "uint32_t V;".
C10_ForcedVariablesAreDeclared ==
    /\ \A k \in 1..Len(stack) :
          Truthy(ForcedOf(stack[k]))
              => \E j \in 1..(k - 1) :
                    /\ stack[j].fn = "generate_instruction"
                    /\ stack[j].instr.type = "if"
                    /\ stack[j].local_if_var = ForcedOf(stack[k])
                    /\ IsDeclaration(stack[j].code_list[1], ForcedOf(stack[k]))
    /\ Generated
         => \A p \in UntypedAssignLines(cpp_code) : DeclaredByEnclosingIf(cpp_code, p)

C10_Witness ==
    /\ Generated
    /\ \E p \in UntypedAssignLines(cpp_code) : IsFallback(cpp_code[p], "a")
    /\ \E p \in UntypedAssignLines(cpp_code) : cpp_code[p].toks = <<"n", "=", "a", ";">>
    /\ \E p \in UntypedAssignLines(cpp_code) : cpp_code[p].toks = <<"n", "=", "5", ";">>

\* Every "name" of the instructions of a tree is a non-empty string.
RECURSIVE NamesNonEmpty(_)
NamesNonEmpty(instrs) ==
    \A k \in 1..Len(instrs) :
        /\ "name" \in DOMAIN instrs[k] => Truthy(instrs[k].name)
        /\ NamesNonEmpty(Get(instrs[k], "then", <<>>))
        /\ NamesNonEmpty(Get(instrs[k], "else", <<>>))
        /\ NamesNonEmpty(Get(instrs[k], "body", <<>>))

\* C11: for a program whose names are all non-empty, when the entry block
\* reports no produced variable the backward scan finds none either; the
\* return operand is the reported variable whenever there is one, and the
\* program ends with "return 0;" exactly when the entry block reported none.
C11_ScanNeverChangesResult ==
    (Generated /\ NamesNonEmpty(TheProgram))
        => LET n == Len(cpp_code)
               reported == ret.assigned
           IN  /\ ~Truthy(reported) => find_final_variable(TheProgram) = None
               /\ Truthy(reported) => cpp_code[n - 1].toks = <<"return", reported, ";">>
               /\ cpp_code[n - 1].toks = <<"return", "0", ";">> <=> ~Truthy(reported)

\* Nothing reported by an entry block that holds a named assignment, nested
\* in an if without a name, which the scan does not search.
C11_Witness ==
    /\ Generated
    /\ NamesNonEmpty(TheProgram)
    /\ ret.assigned = None
    /\ Len(TheProgram) = 2
    /\ TheProgram[1].type = "if"
    /\ Len(TheProgram[1].then) = 1
    /\ TheProgram[1].then[1].type = "assign"
    /\ TheProgram[2].type = "call"
    /\ cpp_code[Len(cpp_code) - 1].toks = <<"return", "0", ";">>

====
